---- MODULE Spec2Model ----
(***************************************************************************)
(* The memory-match game of useGameLogic (src/unnamed/part_000): the one   *)
(* useState object gameState, the two effects that React runs after a      *)
(* commit, the click handler, the flip-back timeouts and restartGame.      *)
(*                                                                         *)
(* A state of the model is a committed render.  pendingEffects names the   *)
(* effects whose dependencies changed in that commit; React flushes them   *)
(* before it handles the next event, so the handlers are guarded by        *)
(* pendingEffects = {}.  The updates one flush queues are batched: they    *)
(* are applied in order to the previous state and committed together.      *)
(***************************************************************************)
EXTENDS Integers, Sequences, FiniteSets, TLC

\* Number of entries of FLAVOURS (6 in the game): the board has two cards
\* of each.
NumFlavours == 2
\* The attempt budget.
MAX_ATTEMPTS == 15
\* Most flip-back timeouts outstanding at once.
MaxTimers == 2

VARIABLES
  gameState,       \* the useState object: cards, selectedCards, attempts, gameStatus, isChecking
  timers,          \* pending setTimeout callbacks, oldest first: <<firstCardId, secondCardId>>
  pendingEffects,  \* effects to run for the last commit: "gameEnd", "matchCheck"
  error            \* what the last step raised: "none" or "TypeError"

vars == <<gameState, timers, pendingEffects, error>>

\* The ids generateId() gave the cards of the current session, in the order
\* initializeGame creates them: two consecutive ids per flavour.
Ids == 1..(2 * NumFlavours)

\* Stands for every id that is no card of the current session: an id
\* generateId() gave a card of a discarded session, or an id it never gave.
StaleId == 2 * NumFlavours + 1

FlavourOf_OffByOne(id) == id \div 2

\* The flavour of the card with the given id: initializeGame creates the two
\* cards of each FLAVOURS entry one after the other.
FlavourOf(id) == (id + 1) \div 2

\* What Array.prototype.find returns when no element matches.
Undefined == [undefined |-> TRUE]

Find(cards, cardId) == IF cardId \in DOMAIN cards THEN cards[cardId] ELSE Undefined

\* initializeGame: the array is indexed by card id here; shuffleArray only
\* permutes positions, which nothing but the rendering order reads.
InitializeGame ==
  [ cards |-> [id \in Ids |-> [flavour |-> FlavourOf(id), isFlipped |-> FALSE, isMatched |-> FALSE]],
    selectedCards |-> <<>>,
    attempts |-> 0,
    gameStatus |-> "playing",
    isChecking |-> FALSE ]

\* flipCard's updater.
FlipCard(prev, cardId) ==
  [prev EXCEPT
     !.cards = [id \in DOMAIN prev.cards |->
                  IF id = cardId THEN [prev.cards[id] EXCEPT !.isFlipped = TRUE]
                  ELSE prev.cards[id]],
     !.selectedCards = Append(prev.selectedCards, cardId)]

\* checkForMatch's first updater.
StartCheck(prev) ==
  [prev EXCEPT !.isChecking = TRUE, !.attempts = prev.attempts + 1]

MarkMatched_OnlyFirst(prev, firstCardId, secondCardId) ==
  [prev EXCEPT
     !.cards = [id \in DOMAIN prev.cards |->
                  IF id = firstCardId
                  THEN [prev.cards[id] EXCEPT !.isMatched = TRUE]
                  ELSE prev.cards[id]],
     !.selectedCards = <<>>,
     !.isChecking = FALSE]

\* checkForMatch's updater of the "Match found" branch.
MarkMatched(prev, firstCardId, secondCardId) ==
  [prev EXCEPT
     !.cards = [id \in DOMAIN prev.cards |->
                  IF id = firstCardId \/ id = secondCardId
                  THEN [prev.cards[id] EXCEPT !.isMatched = TRUE]
                  ELSE prev.cards[id]],
     !.selectedCards = <<>>,
     !.isChecking = FALSE]

FlipBack_All(prev, firstCardId, secondCardId) ==
  [prev EXCEPT
     !.cards = [id \in DOMAIN prev.cards |-> [prev.cards[id] EXCEPT !.isFlipped = FALSE]],
     !.selectedCards = <<>>,
     !.isChecking = FALSE]

\* The updater the setTimeout callback of the "No match" branch runs.
FlipBack(prev, firstCardId, secondCardId) ==
  [prev EXCEPT
     !.cards = [id \in DOMAIN prev.cards |->
                  IF id = firstCardId \/ id = secondCardId
                  THEN [prev.cards[id] EXCEPT !.isFlipped = FALSE]
                  ELSE prev.cards[id]],
     !.selectedCards = <<>>,
     !.isChecking = FALSE]

\* cards.every((card) => card.isMatched)
AllMatched(cards) == \A id \in DOMAIN cards : cards[id].isMatched

GameEndStatus_LossFirst(rendered) ==
  IF rendered.gameStatus # "playing" THEN rendered.gameStatus
  ELSE IF rendered.attempts >= MAX_ATTEMPTS THEN "lost"
  ELSE IF AllMatched(rendered.cards) THEN "won"
  ELSE rendered.gameStatus

GameEndStatus_OffByOne(rendered) ==
  IF rendered.gameStatus # "playing" THEN rendered.gameStatus
  ELSE IF AllMatched(rendered.cards) THEN "won"
  ELSE IF rendered.attempts > MAX_ATTEMPTS THEN "lost"
  ELSE rendered.gameStatus

GameEndStatus_AnyMatched(rendered) ==
  IF rendered.gameStatus # "playing" THEN rendered.gameStatus
  ELSE IF \E id \in DOMAIN rendered.cards : rendered.cards[id].isMatched THEN "won"
  ELSE IF rendered.attempts >= MAX_ATTEMPTS THEN "lost"
  ELSE rendered.gameStatus

\* The game end effect: the status it sets for the rendered state, or the
\* rendered status when it sets none.
GameEndStatus(rendered) ==
  IF rendered.gameStatus # "playing" THEN rendered.gameStatus
  ELSE IF AllMatched(rendered.cards) THEN "won"
  ELSE IF rendered.attempts >= MAX_ATTEMPTS THEN "lost"
  ELSE rendered.gameStatus

SetStatus(prev, status) == [prev EXCEPT !.gameStatus = status]

\* Whether the match check effect calls checkForMatch for the rendered state.
ChecksMatch(rendered) == Len(rendered.selectedCards) = 2

\* checkForMatch compares the flavours of the two selected cards of the render.
IsMatch(rendered) ==
  Find(rendered.cards, rendered.selectedCards[1]).flavour
    = Find(rendered.cards, rendered.selectedCards[2]).flavour

\* The updates checkForMatch queues with setGameState, applied to prev.
CheckForMatch(prev, rendered) ==
  IF IsMatch(rendered)
  THEN MarkMatched(StartCheck(prev), rendered.selectedCards[1], rendered.selectedCards[2])
  ELSE StartCheck(prev)

Scheduled_AnyChange(before, after, refs) ==
  (IF "cards" \in refs \/ before.attempts # after.attempts
      \/ before.gameStatus # after.gameStatus
   THEN {"gameEnd"} ELSE {})
  \cup
  (IF before # after \/ refs # {} THEN {"matchCheck"} ELSE {})

\* The effects a commit from before to after schedules: cards and
\* selectedCards are compared by reference (refs names those an updater
\* rebuilt), attempts and gameStatus by value.
Scheduled(before, after, refs) ==
  (IF "cards" \in refs \/ before.attempts # after.attempts
      \/ before.gameStatus # after.gameStatus
   THEN {"gameEnd"} ELSE {})
  \cup
  (IF "cards" \in refs \/ "selectedCards" \in refs THEN {"matchCheck"} ELSE {})

Init ==
  /\ gameState = InitializeGame
  /\ timers = <<>>
  /\ pendingEffects = {}
  /\ error = "none"

ClickBlocked_StatusOnly(rendered) == rendered.gameStatus # "playing"

\* handleCardClick's first guard, on the rendered state.
ClickBlocked(rendered) ==
  \/ rendered.isChecking
  \/ Len(rendered.selectedCards) >= 2
  \/ rendered.gameStatus # "playing"

AlreadyUp_NoFlippedGuard(card) == card.isMatched

\* handleCardClick's second guard, on the card found.
AlreadyUp(card) == card.isFlipped \/ card.isMatched

\* handleCardClick(cardId).  Reading a property of undefined raises a
\* TypeError.  The click that would start a check is held back while
\* MaxTimers timeouts are outstanding.
HandleCardClick(cardId) ==
  /\ pendingEffects = {}
  /\ ~(Len(gameState.selectedCards) = 1 /\ Len(timers) >= MaxTimers)
  /\ UNCHANGED timers
  /\ IF ClickBlocked(gameState)
     THEN /\ error' = "none"
          /\ UNCHANGED <<gameState, pendingEffects>>
     ELSE LET card == Find(gameState.cards, cardId) IN
          IF card = Undefined
          THEN /\ error' = "TypeError"
               /\ UNCHANGED <<gameState, pendingEffects>>
          ELSE IF AlreadyUp(card)
          THEN /\ error' = "none"
               /\ UNCHANGED <<gameState, pendingEffects>>
          ELSE /\ error' = "none"
               /\ gameState' = FlipCard(gameState, cardId)
               /\ pendingEffects' = Scheduled(gameState, gameState', {"cards", "selectedCards"})

\* The flush of the effects of the last commit: the game end effect, then
\* the match check effect, both reading the rendered state; their updates
\* are committed together.
RunEffects ==
  /\ pendingEffects # {}
  /\ LET rendered == gameState
         afterEnd == IF "gameEnd" \in pendingEffects
                     THEN SetStatus(rendered, GameEndStatus(rendered))
                     ELSE rendered
         checks == "matchCheck" \in pendingEffects /\ ChecksMatch(rendered)
         afterCheck == IF checks THEN CheckForMatch(afterEnd, rendered) ELSE afterEnd
     IN /\ gameState' = afterCheck
        /\ timers' = IF checks /\ ~IsMatch(rendered)
                     THEN Append(timers, <<rendered.selectedCards[1], rendered.selectedCards[2]>>)
                     ELSE timers
        /\ pendingEffects' = Scheduled(rendered, afterCheck,
                                       IF checks /\ IsMatch(rendered)
                                       THEN {"cards", "selectedCards"} ELSE {})
  /\ error' = "none"

\* The oldest timeout fires (all have the same delay, FLIP_BACK_DELAY).
FireTimer ==
  /\ pendingEffects = {}
  /\ timers # <<>>
  /\ gameState' = FlipBack(gameState, Head(timers)[1], Head(timers)[2])
  /\ timers' = Tail(timers)
  /\ pendingEffects' = Scheduled(gameState, gameState', {"cards", "selectedCards"})
  /\ error' = "none"

RestartGame_KeepsChecking ==
  /\ pendingEffects = {}
  /\ gameState.gameStatus # "playing"
  /\ gameState' = [InitializeGame EXCEPT !.isChecking = gameState.isChecking]
  /\ timers' = [i \in 1..Len(timers) |-> <<StaleId, StaleId>>]
  /\ pendingEffects' = Scheduled(gameState, gameState', {"cards", "selectedCards"})
  /\ error' = "none"

ModalVisible_Always(rendered) == TRUE

\* Whether GameModal renders its Play Again button, the only caller of
\* restartGame: App passes isVisible = (gameStatus !== 'playing') and
\* GameModal returns null without it.
ModalVisible(rendered) == rendered.gameStatus # "playing"

\* restartGame, reachable through GameModal's Play Again button, which App
\* renders only while gameStatus is not playing.  No timeout is cleared;
\* the ids the pending callbacks hold belong to the discarded cards.
RestartGame ==
  /\ pendingEffects = {}
  /\ ModalVisible(gameState)
  /\ gameState' = InitializeGame
  /\ timers' = [i \in 1..Len(timers) |-> <<StaleId, StaleId>>]
  /\ pendingEffects' = Scheduled(gameState, gameState', {"cards", "selectedCards"})
  /\ error' = "none"

Next ==
  \/ \E cardId \in Ids \cup {StaleId} : HandleCardClick(cardId)
  \/ RunEffects
  \/ FireTimer
  \/ RestartGame

Spec == Init /\ [][Next]_vars

(***************************************************************************)
(* Properties                                                              *)
(***************************************************************************)

\* Cards that are face up and not matched.
FaceUpUnmatched ==
  {id \in Ids : gameState.cards[id].isFlipped /\ ~gameState.cards[id].isMatched}

Stale(timer) == timer = <<StaleId, StaleId>>

\* C1: a flip-back callback scheduled in a session that restartGame has
\* since replaced leaves the new session's state unchanged when it fires.
C1_StaleCallbackChangesNothing ==
  [][(timers # <<>> /\ Stale(Head(timers)) /\ FireTimer) => UNCHANGED gameState]_vars

\* C2: once gameStatus is won or lost, gameState changes only by restartGame.
C2_FrozenAfterEnd ==
  [][gameState.gameStatus # "playing" => (UNCHANGED gameState \/ RestartGame)]_vars

\* C3: whenever gameStatus is lost the last mismatched pair has been
\* reverted: no unmatched card is face up, the selection is empty and
\* isChecking is false.
C3_LostAfterReversion ==
  gameState.gameStatus = "lost" =>
    /\ FaceUpUnmatched = {}
    /\ gameState.selectedCards = <<>>
    /\ ~gameState.isChecking

\* C4: at most one flip-back callback is outstanding.
C4_OneTimerOutstanding == Len(timers) <= 1

\* C5: win is checked before loss: gameStatus is never lost while all cards
\* are matched, and once the effects of the commit that matched the last
\* pair have run it is won, also when that match was attempt MAX_ATTEMPTS.
C5_WinBeforeLoss ==
  AllMatched(gameState.cards) =>
    /\ gameState.gameStatus # "lost"
    /\ (pendingEffects = {} => gameState.gameStatus = "won")

C5_Witness ==
  /\ gameState.gameStatus = "won"
  /\ gameState.attempts = MAX_ATTEMPTS
  /\ AllMatched(gameState.cards)

\* C6: while the flip-back of a mismatched pair is pending, isChecking is
\* true and the selection is still that pair, and at most two unmatched
\* cards are face up.
C6_CheckingBlocksSelection ==
  /\ Cardinality(FaceUpUnmatched) <= 2
  /\ \A i \in 1..Len(timers) :
       ~Stale(timers[i]) =>
         /\ gameState.isChecking
         /\ gameState.selectedCards = timers[i]

\* C7: handleCardClick with an id of no card of the session changes nothing
\* and raises no error.
C7_UnknownIdSilentNoOp ==
  [][HandleCardClick(StaleId) => (UNCHANGED gameState /\ error' = "none")]_vars

\* C8: restartGame yields a playing session with 0 attempts, an empty
\* selection, isChecking false and 2 * NumFlavours cards, none flipped or
\* matched, whatever the state it is invoked in.
C8_RestartYieldsFreshSession ==
  [][RestartGame =>
       /\ gameState'.gameStatus = "playing"
       /\ gameState'.attempts = 0
       /\ gameState'.selectedCards = <<>>
       /\ gameState'.isChecking = FALSE
       /\ Cardinality(DOMAIN gameState'.cards) = 2 * NumFlavours
       /\ \A id \in DOMAIN gameState'.cards :
            ~gameState'.cards[id].isFlipped /\ ~gameState'.cards[id].isMatched]_vars

\* A restart was made while a flip-back was pending and isChecking was true.
C8_Witness ==
  /\ gameState = InitializeGame
  /\ timers # <<>>
  /\ pendingEffects # {}

\* C9: attempts stays within 0..MAX_ATTEMPTS and decreases only by restartGame.
C9_AttemptsBoundedMonotone ==
  /\ [](gameState.attempts \in 0..MAX_ATTEMPTS)
  /\ [][gameState'.attempts >= gameState.attempts \/ RestartGame]_vars

C9_Witness ==
  /\ gameState.attempts = MAX_ATTEMPTS
  /\ gameState.gameStatus = "lost"

\* C10: the selection holds at most two card ids, no id twice.
C10_SelectionAtMostTwoDistinct ==
  /\ Len(gameState.selectedCards) <= 2
  /\ \A i, j \in 1..Len(gameState.selectedCards) :
       i # j => gameState.selectedCards[i] # gameState.selectedCards[j]

C10_Witness ==
  /\ Len(gameState.selectedCards) = 2
  /\ gameState.isChecking

\* C11: a click on any card while isChecking is true leaves gameState
\* unchanged.
C11_ClickWhileCheckingIgnored ==
  [][(gameState.isChecking /\ \E cardId \in Ids \cup {StaleId} : HandleCardClick(cardId))
       => UNCHANGED gameState]_vars

\* A check is pending and the handler can be called.
C11_Witness ==
  /\ gameState.isChecking
  /\ gameState.gameStatus = "playing"
  /\ pendingEffects = {}
  /\ timers # <<>>
  /\ \E id \in Ids : ~AlreadyUp(gameState.cards[id])

\* C12: a click on a card that is already flipped or already matched leaves
\* gameState unchanged.
C12_ClickOnUpCardIgnored ==
  [][\A cardId \in Ids :
       (HandleCardClick(cardId)
          /\ (gameState.cards[cardId].isFlipped \/ gameState.cards[cardId].isMatched))
       => UNCHANGED gameState]_vars

\* The first guard lets a click through while one card is face up in the
\* selection and another is matched.
C12_Witness ==
  /\ pendingEffects = {}
  /\ ~ClickBlocked(gameState)
  /\ \E id \in Ids : gameState.cards[id].isMatched
  /\ \E id \in Ids : gameState.cards[id].isFlipped /\ ~gameState.cards[id].isMatched

\* The flush in which the match check effect evaluates the selected pair.
EvaluatesPair ==
  /\ RunEffects
  /\ "matchCheck" \in pendingEffects
  /\ ChecksMatch(gameState)

\* C13: selecting two cards of different flavours adds 1 to attempts and
\* leaves both face up with isChecking true until their flip-back fires;
\* when it fires both are face down and unmatched, the selection is empty,
\* isChecking is false and, below MAX_ATTEMPTS, gameStatus is playing.
C13_MismatchFlipsBack ==
  /\ [][(EvaluatesPair /\ ~IsMatch(gameState)) =>
          /\ gameState'.attempts = gameState.attempts + 1
          /\ gameState'.isChecking
          /\ \A i \in 1..2 : gameState'.cards[gameState.selectedCards[i]].isFlipped]_vars
  /\ [](\A i \in 1..Len(timers) :
          ~Stale(timers[i]) =>
            /\ gameState.isChecking
            /\ \A k \in 1..2 : gameState.cards[timers[i][k]].isFlipped)
  /\ [][(timers # <<>> /\ ~Stale(Head(timers)) /\ FireTimer) =>
          /\ \A k \in 1..2 :
               /\ ~gameState'.cards[Head(timers)[k]].isFlipped
               /\ ~gameState'.cards[Head(timers)[k]].isMatched
          /\ gameState'.selectedCards = <<>>
          /\ ~gameState'.isChecking
          /\ (gameState.attempts < MAX_ATTEMPTS => gameState'.gameStatus = "playing")]_vars

\* C14: selecting two cards of one flavour marks both matched in the same
\* flush, with no timeout, empties the selection, leaves isChecking false
\* and adds 1 to attempts; the game end effect that follows sets won exactly
\* when all cards are matched.
C14_MatchIsImmediate ==
  /\ [][(EvaluatesPair /\ IsMatch(gameState)) =>
          /\ \A i \in 1..2 : gameState'.cards[gameState.selectedCards[i]].isMatched
          /\ gameState'.selectedCards = <<>>
          /\ ~gameState'.isChecking
          /\ gameState'.attempts = gameState.attempts + 1
          /\ timers' = timers]_vars
  /\ [][(RunEffects /\ "gameEnd" \in pendingEffects /\ gameState.gameStatus = "playing") =>
          (gameState'.gameStatus = "won" <=> AllMatched(gameState.cards))]_vars

\* The last pair was just matched; the game end effect has not run yet.
C14_Witness ==
  /\ AllMatched(gameState.cards)
  /\ gameState.gameStatus = "playing"
  /\ gameState.selectedCards = <<>>
  /\ ~gameState.isChecking
  /\ "gameEnd" \in pendingEffects

\* C15: the session has exactly 2 * NumFlavours cards and every flavour is
\* on exactly two of them.
C15_TwoCardsPerFlavour ==
  /\ Cardinality(DOMAIN gameState.cards) = 2 * NumFlavours
  /\ \A f \in 1..NumFlavours :
       Cardinality({id \in DOMAIN gameState.cards : gameState.cards[id].flavour = f}) = 2

\* A session that followed a restart, in which a pair was matched and a
\* card is selected while an old flip-back is still pending.
C15_Witness ==
  /\ \E id \in Ids : gameState.cards[id].isMatched
  /\ Len(gameState.selectedCards) = 1
  /\ timers # <<>>
  /\ Stale(Head(timers))

\* C16: every card that is face up and not matched is in the selection.
C16_FaceUpCardsAreSelected ==
  \A id \in FaceUpUnmatched :
    \E i \in 1..Len(gameState.selectedCards) : gameState.selectedCards[i] = id

\* C17: the game cannot get stuck: in every playing state in which no
\* effect and no timeout is pending, some click still flips a card, so the
\* play can go on until gameStatus is won or lost.
C17_NoDeadEnd ==
  (gameState.gameStatus = "playing" /\ pendingEffects = {} /\ timers = <<>>) =>
    /\ ~ClickBlocked(gameState)
    /\ \E id \in Ids : ~AlreadyUp(gameState.cards[id])

\* C18: the match evaluation runs once per selected pair: attempts changes
\* only by restartGame or by the flush that evaluates a pair not yet under
\* evaluation, and that flush adds exactly 1.
C18_OneEvaluationPerPair ==
  /\ [][gameState'.attempts # gameState.attempts =>
          \/ RestartGame
          \/ /\ EvaluatesPair
             /\ ~gameState.isChecking
             /\ gameState'.attempts = gameState.attempts + 1]_vars
  /\ [][EvaluatesPair => gameState'.attempts = gameState.attempts + 1]_vars

\* A mismatched pair has been evaluated and the commit of that evaluation
\* schedules the game end effect only.
C18_Witness ==
  /\ gameState.isChecking
  /\ Len(gameState.selectedCards) = 2
  /\ gameState.attempts >= 1
  /\ pendingEffects = {"gameEnd"}

MatchedIds == {id \in Ids : gameState.cards[id].isMatched}

\* C19: a matched card is face up, the two cards of a flavour are matched
\* together or not at all, and the matched pairs are at most attempts.
C19_MatchedCardsConsistent ==
  /\ \A id \in MatchedIds : gameState.cards[id].isFlipped
  /\ \A a, b \in Ids :
       gameState.cards[a].flavour = gameState.cards[b].flavour =>
         (a \in MatchedIds <=> b \in MatchedIds)
  /\ Cardinality(MatchedIds) <= 2 * gameState.attempts

\* One pair is matched, a mismatched pair has been turned back and another
\* card is face up.
C19_Witness ==
  /\ Cardinality(MatchedIds) = 2
  /\ gameState.attempts >= 2
  /\ FaceUpUnmatched # {}
  /\ timers = <<>>

\* C20: when gameStatus is won all cards are matched and attempts is
\* between the number of pairs and MAX_ATTEMPTS; when it is lost attempts is
\* MAX_ATTEMPTS and some card is unmatched.
C20_EndStatusAgreesWithData ==
  /\ gameState.gameStatus = "won" =>
       /\ AllMatched(gameState.cards)
       /\ NumFlavours <= gameState.attempts
       /\ gameState.attempts <= MAX_ATTEMPTS
  /\ gameState.gameStatus = "lost" =>
       /\ gameState.attempts = MAX_ATTEMPTS
       /\ ~AllMatched(gameState.cards)

\* A game won without a single mismatch.
C20_Witness ==
  /\ gameState.gameStatus = "won"
  /\ gameState.attempts = NumFlavours

\* C21: Play Again, which invokes restartGame, is offered exactly when
\* gameStatus is won or lost: never while it is playing, and in every
\* committed state with gameStatus won or lost whose effects have run, a
\* pending flip-back or not.
C21_RestartOfferedIffGameOver ==
  /\ gameState.gameStatus = "playing" => ~ENABLED RestartGame
  /\ (gameState.gameStatus \in {"won", "lost"} /\ pendingEffects = {}) => ENABLED RestartGame
  /\ gameState.gameStatus \in {"playing", "won", "lost"}

\* The game is lost, the flip-back of the last pair is still pending and
\* Play Again can be clicked.
C21_Witness ==
  /\ gameState.gameStatus = "lost"
  /\ pendingEffects = {}
  /\ timers # <<>>
  /\ ~Stale(Head(timers))
  /\ gameState.isChecking

====
